---- MODULE Spec2Model ----
(***************************************************************************)
(* Model of src/test-server.py: the Light Show test server.                *)
(*                                                                         *)
(* One HTTPServer (single-threaded socketserver.TCPServer) runs            *)
(* LightShowHandler for each accepted connection.  The handler is modelled  *)
(* statement group by statement group (pc), so that an exception raised by  *)
(* any statement takes the path the Python code gives it: the handler's own *)
(* `except Exception`, or out of the handler into the server's handle_error.*)
(* run_server is modelled from serve_forever() to the return of shutdown(). *)
(***************************************************************************)
EXTENDS Integers, Sequences, FiniteSets, TLC

\* ---------------------------------------------------------------- bounds

\* Number of client connections that may be open or queued at once.
MaxClients == 2

Clients == 1..MaxClients

\* ------------------------------------------------------------------ state

VARIABLES
    rpc,               \* where run_server is: start, serving, except,
                       \*   shutdown, wait, done; killed = uncaught interrupt
    shutdown_request,  \* BaseServer.__shutdown_request
    is_shut_down,      \* BaseServer.__is_shut_down (a threading.Event)
    conn,              \* per client: idle, queued (in the listen backlog),
                       \*   accepted (its request is being handled)
    h,                 \* per client: the handler running for its connection
    memo               \* at most one earlier delivered exchange, kept for
                       \*   comparison with later ones

vars == <<rpc, shutdown_request, is_shut_down, conn, h, memo>>

\* ------------------------------------------------------------ JSON values

\* A JSON value as json.loads returns it.  All values share one record shape.
JStr(s)  == [t |-> "str",  n |-> 0, s |-> s]
JNum(n)  == [t |-> "num",  n |-> n, s |-> ""]
JBool(b) == [t |-> "bool", n |-> IF b THEN 1 ELSE 0, s |-> ""]
JNull    == [t |-> "null", n |-> 0, s |-> ""]
\* A JSON number such as 1e30, outside what the platform converts to a time.
JBigNum  == [t |-> "bignum", n |-> 0, s |-> "1e+30"]

\* A string holding a lone surrogate ("\ud800" in JSON): json.loads accepts
\* it, the console's UTF-8 encoder does not.
Surrogate == "<lone surrogate U+D800>"

Keys == {"timestamp", "controller_id", "action"}

TimestampValues == {JNum(3723004), JBool(TRUE), JStr("soon"), JNull, JBigNum}
ControllerIdValues == {JStr("ctrl-1"), JStr(Surrogate)}
ActionValues == {JStr("flash_red"), JNull, JStr(Surrogate)}

ValuesOf(k) ==
    CASE k = "timestamp"     -> TimestampValues
      [] k = "controller_id" -> ControllerIdValues
      [] k = "action"        -> ActionValues

\* JSON objects over the three recognised keys: a function from the keys
\* present to their values.
AllObjects ==
    UNION {{o \in [K -> UNION {ValuesOf(k) : k \in Keys}] :
               \A k \in K : o[k] \in ValuesOf(k)} : K \in SUBSET Keys}

\* The event of the spec's first concrete scenario (timestamp scaled down).
ScenarioObject ==
    [timestamp |-> JNum(3723004), controller_id |-> JStr("ctrl-1"),
     action |-> JStr("flash_red")]

\* The objects submitted: every object with at most one key, the full
\* scenario event, and an event whose timestamp cannot be converted although
\* its action is present.
Objects ==
    {o \in AllObjects :
        \/ Cardinality(DOMAIN o) <= 1
        \/ o = ScenarioObject
        \/ o = [timestamp |-> JNull, action |-> JStr("flash_red")]}

\* -------------------------------------------------------- request bodies

\* A request body, by what decoding and parsing it gives.
\*   nonutf8 : bytes that are not valid UTF-8        (b'\xff\xfe')
\*   notjson : valid UTF-8, not JSON                 (b'not-json', b'')
\*   array   : valid JSON, not an object             (b'[]')
\*   object  : a JSON object
EmptyObject == [k \in {} |-> JNull]

BodyNonUtf8 == [kind |-> "nonutf8", obj |-> EmptyObject]
BodyNotJson == [kind |-> "notjson", obj |-> EmptyObject]
BodyArray   == [kind |-> "array",   obj |-> EmptyObject]
BodyObject(o) == [kind |-> "object", obj |-> o]

Bodies == {BodyNonUtf8, BodyNotJson, BodyArray} \cup {BodyObject(o) : o \in Objects}

\* What rfile.read(n) can return when the connection ends before n bytes
\* arrived: a proper prefix of the body.  A proper prefix of a JSON object
\* or array text is not JSON; a prefix of invalid UTF-8 may be empty.
Truncations(b) ==
    IF b.kind = "nonutf8" THEN {BodyNonUtf8, BodyNotJson} ELSE {BodyNotJson}

\* --------------------------------------------------------------- requests

LightControlPath == "/light-control"

Paths == {LightControlPath, "/light-control/x"}
Methods == {"OPTIONS", "POST", "GET", "HEAD"}

\* The methods LightShowHandler defines a do_<METHOD> for.
Implemented == {"OPTIONS", "POST"}

\* The Content-Length header of a request:
\*   exact  : present, the number of body bytes the client sends
\*   over   : present, more than the bytes the client has sent so far
\*   absent : no such header
\*   nonint : present, not an integer ("abc")
ContentLengths == {"exact", "over", "absent", "nonint"}

Request(m, p, cl, b) == [method |-> m, path |-> p, cl |-> cl, body |-> b]

\* The requests clients send.  Every body is sent to the endpoint with a
\* correct Content-Length; the other header cases, paths and methods are
\* combined with a few bodies.
Requests ==
    {Request("POST", LightControlPath, "exact", b) : b \in Bodies}
    \cup {Request("POST", LightControlPath, cl, BodyObject(EmptyObject)) :
             cl \in {"over", "absent", "nonint"}}
    \cup {Request("POST", LightControlPath, "over", BodyNonUtf8)}
    \cup {Request("POST", "/light-control/x", cl, BodyObject(EmptyObject)) :
             cl \in {"exact", "absent"}}
    \cup {Request("OPTIONS", p, "exact", b) :
             p \in Paths, b \in {BodyObject(EmptyObject), BodyNotJson}}
    \cup {Request(m, p, "absent", BodyNotJson) :
             m \in Methods \ Implemented, p \in Paths}

NoRequest == Request("", "", "absent", BodyNotJson)

\* ------------------------------------------------- the try block's steps

\* dict.get(key, default)
Get(o, k, default) == IF k \in DOMAIN o THEN o[k] ELSE default

\* str(value) as an f-string renders it.
PyStr(v) ==
    CASE v.t = "str"    -> v.s
      [] v.t = "num"    -> ToString(v.n)
      [] v.t = "bool"   -> IF v.n = 1 THEN "True" ELSE "False"
      [] v.t = "null"   -> "None"
      [] v.t = "bignum" -> v.s

\* Mutant: a null timestamp is taken as 0 instead of raising.
DivisibleOrNull(v) == v.t \in {"num", "bool", "bignum", "null"}

\* Whether `value / 1000` is defined: int, float and bool operands are.
Divisible(v) == v.t \in {"num", "bool", "bignum"}

\* Whether datetime.fromtimestamp(seconds) accepts the quotient.
InTimeRange(v) == v.t # "bignum"

\* The exception lines 25-26 raise for a body, "" when they raise none.
ParseError(b) ==
    CASE b.kind = "nonutf8" -> "UnicodeDecodeError"
      [] b.kind = "notjson" -> "JSONDecodeError"
      [] b.kind = "array"   -> "AttributeError"
      [] OTHER ->
           LET ts == Get(b.obj, "timestamp", JNum(0))
           IN  IF ~Divisible(ts) THEN "TypeError"
               ELSE IF ~InTimeRange(ts) THEN "OverflowError"
               ELSE ""

\* str(e) for the exceptions the handler can see.
ExcMessage(e) ==
    CASE e = "UnicodeDecodeError" ->
             "'utf-8' codec can't decode byte 0xff in position 0: invalid start byte"
      [] e = "JSONDecodeError" -> "Expecting value: line 1 column 1 (char 0)"
      [] e = "AttributeError"  -> "'list' object has no attribute 'get'"
      [] e = "TypeError"       -> "unsupported operand type(s) for /"
      [] e = "OverflowError"   -> "timestamp out of range for platform time_t"
      [] e = "UnicodeEncodeError" ->
             "'utf-8' codec can't encode character '\\ud800': surrogates not allowed"
      [] e = "OSError"         -> "[Errno 32] Broken pipe"
      [] OTHER -> e

\* Two decimal digits, three decimal digits.
Pad2(n) == IF n < 10 THEN "0" \o ToString(n) ELSE ToString(n)
Pad3(n) == IF n < 10 THEN "00" \o ToString(n)
           ELSE IF n < 100 THEN "0" \o ToString(n) ELSE ToString(n)

\* timestamp.strftime('%H:%M:%S.%f')[:-3] of fromtimestamp(ms / 1000), with
\* the local time zone taken as UTC.
TimeText(ms) ==
    Pad2((ms \div 3600000) % 24) \o ":" \o Pad2((ms \div 60000) % 60) \o ":"
        \o Pad2((ms \div 1000) % 60) \o "." \o Pad3(ms % 1000)

\* Whether print() can encode the text for the console.
Printable(v) == ~(v.t = "str" /\ v.s = Surrogate)

\* Mutant: the response message takes the console lines' default.
MessageDefaultCapitalised == "Unknown"

\* The defaults of the two console lines and of the response message.
ConsoleDefault == "Unknown"
MessageDefault == "unknown"

\* The three print statements of lines 28-30, in order.  The result is the
\* lines that reached the console and the exception that stopped them.
PrintLines(o) ==
    LET ts   == Get(o, "timestamp", JNum(0))
        cid  == Get(o, "controller_id", JStr(ConsoleDefault))
        act  == Get(o, "action", JStr(ConsoleDefault))
        l1   == "[" \o TimeText(ts.n) \o "] Controller Input Received:"
        l2   == "  Controller ID: " \o PyStr(cid)
        l3   == "  Action: " \o PyStr(act)
    IN  IF ~Printable(cid) THEN [lines |-> <<l1>>, exc |-> "UnicodeEncodeError"]
        ELSE IF ~Printable(act)
             THEN [lines |-> <<l1, l2>>, exc |-> "UnicodeEncodeError"]
        ELSE [lines |-> <<l1, l2, l3>>, exc |-> ""]

\* Line 47.
ErrorLine(e) == "Error processing request: " \o ExcMessage(e)

\* ------------------------------------------------------------- responses

\* What the handler writes to the connection: a status line with its
\* headers (one write, at end_headers), or a body (one write).
StatusHead(status, headers) ==
    [k |-> "head", status |-> status, headers |-> headers,
     fmt |-> "", jstatus |-> "", message |-> ""]
JsonBody(jstatus, message) ==
    [k |-> "body", status |-> 0, headers |-> {},
     fmt |-> "json", jstatus |-> jstatus, message |-> message]
HtmlBody(message) ==
    [k |-> "body", status |-> 0, headers |-> {},
     fmt |-> "html", jstatus |-> "", message |-> message]

CorsOrigin == <<"Access-Control-Allow-Origin", "*">>
JsonType   == <<"Content-type", "application/json">>

\* Mutant: the preflight response without Access-Control-Allow-Headers.
OptionsHeadersWithoutAllowHeaders ==
    {<<"Access-Control-Allow-Origin", "*">>,
     <<"Access-Control-Allow-Methods", "GET, POST, OPTIONS">>}

\* Lines 14-16.
OptionsHeaders ==
    {CorsOrigin,
     <<"Access-Control-Allow-Methods", "GET, POST, OPTIONS">>,
     <<"Access-Control-Allow-Headers", "Content-Type">>}

\* Lines 36-37 and 49-50.
SuccessHeaders == {JsonType, CorsOrigin}
ErrorHeaders == {JsonType, CorsOrigin}

\* Mutant: the 404 branch sends the header the other branches send.
NotFoundHeadersWithOrigin == {<<"Access-Control-Allow-Origin", "*">>}

\* Lines 56-57: no header is added.
NotFoundHeaders == {}

\* Mutant: the handler remembers events and reports a repeated one.
SuccessMessageDeduplicated(o) ==
    IF \E m \in memo : m.req.body = [kind |-> "object", obj |-> o]
    THEN "Duplicate command ignored"
    ELSE "Received " \o PyStr(Get(o, "action", JStr("unknown"))) \o " command"

\* Lines 40-43.
SuccessMessage(o) ==
    "Received " \o PyStr(Get(o, "action", JStr(MessageDefault))) \o " command"

SuccessBody(o) == JsonBody("success", SuccessMessage(o))

\* Line 53.
ErrorBody(e) == JsonBody("error", ExcMessage(e))

\* BaseHTTPRequestHandler.send_error(501) for a method the class has no
\* do_<METHOD> for.
UnsupportedHeaders ==
    {<<"Connection", "close">>, <<"Content-Type", "text/html;charset=utf-8">>}
UnsupportedMessage(m) == "Unsupported method ('" \o m \o "')"

\* ------------------------------------------------------------- handlers

\* A handler that is not running.
\*   pc      : the statement group the handler is at
\*   req     : the request parsed from the connection
\*   avail   : whether all declared body bytes have arrived ("all"/"part")
\*   data    : what rfile.read returned
\*   exc     : the exception being handled or propagated
\*   calls   : the status codes passed to send_response, in order
\*   out     : what has been written to the connection, in order
\*   console : what has been printed while handling this request
\*   sock    : "down" once the peer is gone: every later write raises
\*   wfail   : some write of this handler raised
NoHandler ==
    [pc |-> "none", req |-> NoRequest, avail |-> "all", data |-> BodyNotJson,
     exc |-> "", calls |-> <<>>, out |-> <<>>, console |-> <<>>,
     sock |-> "up", wfail |-> FALSE]

\* handle_one_request: the method named on the request line selects
\* do_<METHOD>; without one, send_error(501).
Route(r) ==
    IF r.method \notin Implemented THEN "send_error"
    ELSE IF r.method = "OPTIONS" THEN "do_OPTIONS"
    ELSE "do_POST"

Init ==
    /\ rpc = "start"
    /\ shutdown_request = FALSE
    /\ is_shut_down = FALSE
    /\ conn = [c \in Clients |-> "idle"]
    /\ h = [c \in Clients |-> NoHandler]
    /\ memo = {}

\* ----------------------------------------------------------- the clients

\* A client connects and sends its request; the kernel queues the
\* connection on the listening socket, which exists from construction on.
Connect(c) ==
    /\ rpc \notin {"done", "killed"}
    /\ conn[c] = "idle"
    /\ conn' = [conn EXCEPT ![c] = "queued"]
    /\ UNCHANGED <<rpc, shutdown_request, is_shut_down, h, memo>>

\* The rest of a body that was declared but not yet sent arrives.
ClientSendsRest(c) ==
    /\ h[c].pc # "none"
    /\ h[c].avail = "part"
    /\ h' = [h EXCEPT ![c].avail = "all"]
    /\ UNCHANGED <<rpc, shutdown_request, is_shut_down, conn, memo>>

\* The client ends its side before the declared bytes were sent: the read
\* gets end-of-file.
ClientEndsStream(c) ==
    /\ h[c].pc # "none"
    /\ h[c].avail = "part"
    /\ h' = [h EXCEPT ![c].avail = "eof"]
    /\ UNCHANGED <<rpc, shutdown_request, is_shut_down, conn, memo>>

\* ------------------------------------------------------------ the server

\* Mutant: a threading server, which accepts while handlers run.
CanAcceptThreaded == TRUE

\* socketserver.TCPServer handles a request inside the serve_forever loop,
\* in the same thread: the loop returns to select() only when the handler
\* has returned or raised.
CanAccept == \A d \in Clients : h[d].pc = "none"

\* serve_forever() is entered: the shut-down event is cleared.
ServeForever ==
    /\ rpc = "start"
    /\ rpc' = "serving"
    /\ is_shut_down' = FALSE
    /\ UNCHANGED <<shutdown_request, conn, h, memo>>

\* The loop accepts a queued connection, reads the request line and the
\* headers, and dispatches on the method.
Accept(c) ==
    /\ rpc = "serving"
    /\ ~shutdown_request
    /\ conn[c] = "queued"
    /\ CanAccept
    /\ \E r \in Requests :
          h' = [h EXCEPT ![c] = [NoHandler EXCEPT
                   !.pc = Route(r), !.req = r,
                   !.avail = IF r.cl = "over" THEN "part" ELSE "all"]]
    /\ conn' = [conn EXCEPT ![c] = "accepted"]
    /\ UNCHANGED <<rpc, shutdown_request, is_shut_down, memo>>

\* One write of the handler to the connection (wfile is unbuffered: the
\* write is a sendall).  It succeeds while the peer is there; it may raise
\* OSError, with the peer gone for good or not.
Write(c, status, item, okpc, failpc) ==
    LET called == IF status = 0 THEN h[c].calls ELSE Append(h[c].calls, status)
    IN  \/ /\ h[c].sock = "up"
           /\ h' = [h EXCEPT ![c].calls = called,
                             ![c].out = Append(@, item),
                             ![c].pc = okpc]
        \/ \E s \in {"down"} \cup {h[c].sock} :
              h' = [h EXCEPT ![c].calls = called,
                             ![c].sock = s,
                             ![c].wfail = TRUE,
                             ![c].exc = "OSError",
                             ![c].pc = failpc]

\* Lines 13-17.
do_OPTIONS(c) ==
    /\ h[c].pc = "do_OPTIONS"
    /\ Write(c, 200, StatusHead(200, OptionsHeaders), "return", "raised")
    /\ UNCHANGED <<rpc, shutdown_request, is_shut_down, conn, memo>>

\* send_error(501): the status line and its headers.
SendError(c) ==
    /\ h[c].pc = "send_error"
    /\ Write(c, 501, StatusHead(501, UnsupportedHeaders),
             IF h[c].req.method = "HEAD" THEN "return" ELSE "error_body",
             "raised")
    /\ UNCHANGED <<rpc, shutdown_request, is_shut_down, conn, memo>>

\* send_error(501): the HTML body, not sent for HEAD.
SendErrorBody(c) ==
    /\ h[c].pc = "error_body"
    /\ Write(c, 0, HtmlBody(UnsupportedMessage(h[c].req.method)),
             "return", "raised")
    /\ UNCHANGED <<rpc, shutdown_request, is_shut_down, conn, memo>>

\* Lines 20-21: the path test, then int(self.headers['Content-Length']),
\* which is outside the try block.
PostRoute(r) ==
    IF r.path # LightControlPath THEN [pc |-> "not_found", exc |-> ""]
    ELSE IF r.cl = "absent" THEN [pc |-> "raised", exc |-> "TypeError"]
    ELSE IF r.cl = "nonint" THEN [pc |-> "raised", exc |-> "ValueError"]
    ELSE [pc |-> "read", exc |-> ""]

do_POST(c) ==
    /\ h[c].pc = "do_POST"
    /\ h' = [h EXCEPT ![c].pc = PostRoute(h[c].req).pc,
                      ![c].exc = PostRoute(h[c].req).exc]
    /\ UNCHANGED <<rpc, shutdown_request, is_shut_down, conn, memo>>

\* rfile.read(content_length) returns when that many bytes have arrived or
\* the stream has ended; no timeout is set on the socket.
ReadReturns(c) == h[c].avail # "part"

\* Line 22.
ReadBody(c) ==
    /\ h[c].pc = "read"
    /\ ReadReturns(c)
    /\ \E d \in IF h[c].avail = "all" THEN {h[c].req.body}
                ELSE Truncations(h[c].req.body) :
          h' = [h EXCEPT ![c].data = d, ![c].pc = "try"]
    /\ UNCHANGED <<rpc, shutdown_request, is_shut_down, conn, memo>>

\* Lines 25-26: decode, json.loads, data.get('timestamp', 0) / 1000,
\* datetime.fromtimestamp.
Parse(c) ==
    /\ h[c].pc = "try"
    /\ LET e == ParseError(h[c].data)
       IN  h' = [h EXCEPT ![c].exc = e,
                          ![c].pc = IF e = "" THEN "print" ELSE "except"]
    /\ UNCHANGED <<rpc, shutdown_request, is_shut_down, conn, memo>>

\* Lines 28-30.
PrintInput(c) ==
    /\ h[c].pc = "print"
    /\ LET p == PrintLines(h[c].data.obj)
       IN  h' = [h EXCEPT ![c].console = @ \o p.lines,
                          ![c].exc = p.exc,
                          ![c].pc = IF p.exc = "" THEN "send_200" ELSE "except"]
    /\ UNCHANGED <<rpc, shutdown_request, is_shut_down, conn, memo>>

\* Lines 35-38.
Send200(c) ==
    /\ h[c].pc = "send_200"
    /\ Write(c, 200, StatusHead(200, SuccessHeaders), "body_200", "except")
    /\ UNCHANGED <<rpc, shutdown_request, is_shut_down, conn, memo>>

\* Lines 40-44.
Body200(c) ==
    /\ h[c].pc = "body_200"
    /\ Write(c, 0, SuccessBody(h[c].data.obj), "return", "except")
    /\ UNCHANGED <<rpc, shutdown_request, is_shut_down, conn, memo>>

\* Line 47: the handler's own except clause prints the error.
Except(c) ==
    /\ h[c].pc = "except"
    /\ h' = [h EXCEPT ![c].console = Append(@, ErrorLine(h[c].exc)),
                      ![c].pc = "send_400"]
    /\ UNCHANGED <<rpc, shutdown_request, is_shut_down, conn, memo>>

\* Lines 48-51.  An exception here leaves do_POST.
Send400(c) ==
    /\ h[c].pc = "send_400"
    /\ Write(c, 400, StatusHead(400, ErrorHeaders), "body_400", "raised")
    /\ UNCHANGED <<rpc, shutdown_request, is_shut_down, conn, memo>>

\* The exception bound by `except Exception as e`.
Caught(c) == h[c].exc

\* Lines 53-54.
Body400(c) ==
    /\ h[c].pc = "body_400"
    /\ Write(c, 0, ErrorBody(Caught(c)), "return", "raised")
    /\ UNCHANGED <<rpc, shutdown_request, is_shut_down, conn, memo>>

\* Lines 56-57.
NotFound(c) ==
    /\ h[c].pc = "not_found"
    /\ Write(c, 404, StatusHead(404, NotFoundHeaders), "return", "raised")
    /\ UNCHANGED <<rpc, shutdown_request, is_shut_down, conn, memo>>

\* A completed exchange: the request as received and what was written
\* back; `between` records that another exchange ended after it.
Exchange(c) == [req |-> h[c].req, out |-> h[c].out, between |-> FALSE]

\* Whether the exchange is one a client saw whole: every write succeeded
\* and the body arrived in full.
Delivered(c) == ~h[c].wfail /\ h[c].avail = "all"

\* The exchange of handler c ends: the remembered exchange, if any, has
\* been followed by another one; else this one may be remembered.
Remember(c) ==
    \/ memo' = {[m EXCEPT !.between = TRUE] : m \in memo}
    \/ /\ memo = {}
       /\ Delivered(c)
       /\ memo' = {Exchange(c)}

\* The handler returns; the server closes the connection (HTTP/1.0) and
\* goes back to its loop.
Return(c) ==
    /\ h[c].pc = "return"
    /\ h' = [h EXCEPT ![c] = NoHandler]
    /\ conn' = [conn EXCEPT ![c] = "idle"]
    /\ Remember(c)
    /\ UNCHANGED <<rpc, shutdown_request, is_shut_down>>

\* Mutant: an exception that leaves the handler ends the process.
HandlerErrorKills(r) == "killed"

\* What an exception that leaves the handler does to run_server:
\* _handle_request_noblock catches Exception, calls handle_error (a
\* traceback on stderr) and closes the connection; the loop goes on.
AfterHandlerError(r) == r

\* An exception propagates out of the handler.
Raised(c) ==
    /\ h[c].pc = "raised"
    /\ h' = [h EXCEPT ![c] = NoHandler]
    /\ conn' = [conn EXCEPT ![c] = "idle"]
    /\ rpc' = AfterHandlerError(rpc)
    /\ Remember(c)
    /\ UNCHANGED <<shutdown_request, is_shut_down>>

\* ------------------------------------------------------------ run_server

\* Mutant: the shut-down event is still clear when shutdown() waits on it.
EventLeftClear == FALSE

\* What serve_forever's finally clause leaves in the shut-down event.
EventAfterServeForever == TRUE

\* Ctrl+C: KeyboardInterrupt is raised in the main thread.  Inside
\* serve_forever (lines 74-75) it is not an Exception: it passes the
\* handler's except clause, the server closes the connection being handled,
\* serve_forever's finally clause runs, and line 76 catches it.  Anywhere
\* else in run_server nothing catches it.
Interrupt ==
    /\ rpc \in {"start", "serving", "except", "shutdown", "wait"}
    /\ IF rpc = "serving"
       THEN /\ rpc' = "except"
            /\ shutdown_request' = FALSE
            /\ is_shut_down' = EventAfterServeForever
            /\ h' = [c \in Clients |-> NoHandler]
            /\ conn' = [c \in Clients |->
                          IF h[c].pc # "none" THEN "idle" ELSE conn[c]]
       ELSE /\ rpc' = "killed"
            /\ UNCHANGED <<shutdown_request, is_shut_down, h, conn>>
    /\ UNCHANGED memo

\* Line 77.
PrintShuttingDown ==
    /\ rpc = "except"
    /\ rpc' = "shutdown"
    /\ UNCHANGED <<shutdown_request, is_shut_down, conn, h, memo>>

\* Line 78, shutdown(): self.__shutdown_request = True
ShutdownCall ==
    /\ rpc = "shutdown"
    /\ shutdown_request' = TRUE
    /\ rpc' = "wait"
    /\ UNCHANGED <<is_shut_down, conn, h, memo>>

\* Line 78, shutdown(): self.__is_shut_down.wait(), then run_server returns.
ShutdownReturns ==
    /\ rpc = "wait"
    /\ is_shut_down
    /\ rpc' = "done"
    /\ UNCHANGED <<shutdown_request, is_shut_down, conn, h, memo>>

\* ---------------------------------------------------------- specification

HandlerStep(c) ==
    \/ do_OPTIONS(c)
    \/ SendError(c)
    \/ SendErrorBody(c)
    \/ do_POST(c)
    \/ ReadBody(c)
    \/ Parse(c)
    \/ PrintInput(c)
    \/ Send200(c)
    \/ Body200(c)
    \/ Except(c)
    \/ Send400(c)
    \/ Body400(c)
    \/ NotFound(c)
    \/ Return(c)
    \/ Raised(c)

MainStep ==
    \/ ServeForever
    \/ PrintShuttingDown
    \/ ShutdownCall
    \/ ShutdownReturns

Next ==
    \/ \E c \in Clients :
          \/ Connect(c)
          \/ ClientSendsRest(c)
          \/ ClientEndsStream(c)
          \/ Accept(c)
          \/ HandlerStep(c)
    \/ MainStep
    \/ Interrupt

Spec == Init /\ [][Next]_vars

\* The main thread goes on to its next statement whenever it has one;
\* clients and the operator are under no obligation.
LiveSpec ==
    /\ Spec
    /\ WF_vars(MainStep)

\* ------------------------------------------------------------ properties

\* The handler for c has ended, by returning or by raising.
Ended(c) == h[c].pc \in {"return", "raised"}

\* An ended exchange in which every write succeeded and the body arrived as
\* declared: what the client of c has received is h[c].out.
Answered(c) == Ended(c) /\ Delivered(c)

IsLightControlPost(r) == r.method = "POST" /\ r.path = "/light-control"

AccessControlNames ==
    {"Access-Control-Allow-Origin", "Access-Control-Allow-Methods",
     "Access-Control-Allow-Headers"}

HasNoAccessControl(item) == \A hd \in item.headers : hd[1] \notin AccessControlNames

\* The text of the action field as the message shows it.
ActionText(o) == IF "action" \in DOMAIN o THEN PyStr(o["action"]) ELSE "unknown"

\* The success response of section 6 for the object o.
IsSuccessResponse(out, o) ==
    /\ Len(out) = 2
    /\ out[1].k = "head" /\ out[1].status = 200
    /\ <<"Access-Control-Allow-Origin", "*">> \in out[1].headers
    /\ out[2].k = "body" /\ out[2].fmt = "json"
    /\ out[2].jstatus = "success"
    /\ out[2].message = "Received " \o ActionText(o) \o " command"

\* The error response of section 6.
IsErrorResponse(out) ==
    /\ Len(out) = 2
    /\ out[1].k = "head" /\ out[1].status = 400
    /\ <<"Access-Control-Allow-Origin", "*">> \in out[1].headers
    /\ out[2].k = "body" /\ out[2].fmt = "json"
    /\ out[2].jstatus = "error"
    /\ out[2].message # ""

\* A well-formed JSON object sent to the endpoint with a correct
\* Content-Length.
WellFormedPost(r) ==
    IsLightControlPost(r) /\ r.cl = "exact" /\ r.body.kind = "object"

\* The timestamp is absent or a value Python divides and converts: a JSON
\* number in the platform's time range, or a JSON boolean.
TimestampConverts(o) ==
    "timestamp" \notin DOMAIN o \/ o["timestamp"].t \in {"num", "bool"}

\* The console can encode the controller_id and the action.
ConsoleAccepts(o) ==
    \A k \in {"controller_id", "action"} \cap DOMAIN o : o[k] # JStr(Surrogate)

\* C1 as claimed: every answered POST of a well-formed JSON object to
\* /light-control with a correct Content-Length gets status 200, the
\* Access-Control-Allow-Origin: * header and the body
\* {"status":"success","message":"Received <action> command"}, <action>
\* being the action field or "unknown".
C1_EveryObjectSucceeds ==
    \A c \in Clients :
        (Answered(c) /\ WellFormedPost(h[c].req))
            => IsSuccessResponse(h[c].out, h[c].req.body.obj)

\* C1 amended: the same response, for the well-formed objects whose
\* timestamp is absent or converts to a local time and whose controller_id
\* and action the console can print.
C1_ConvertibleObjectSucceeds ==
    \A c \in Clients :
        (/\ Answered(c)
         /\ WellFormedPost(h[c].req)
         /\ TimestampConverts(h[c].req.body.obj)
         /\ ConsoleAccepts(h[c].req.body.obj))
            => IsSuccessResponse(h[c].out, h[c].req.body.obj)

\* C1 witness: POST {} has been answered, after a POST whose action is set.
C1_Witness ==
    \E c \in Clients :
        /\ Answered(c)
        /\ h[c].req = Request("POST", "/light-control", "exact", BodyObject(EmptyObject))
        /\ h[c].out[2].message = "Received unknown command"
        /\ \E m \in memo : m.req.body = BodyObject(ScenarioObject)
                           /\ m.out[2].message = "Received flash_red command"

\* The three malformed cases of C2.
MalformedPost(r) ==
    /\ IsLightControlPost(r)
    /\ \/ r.cl = "absent"
       \/ r.cl = "exact" /\ r.body.kind \in {"notjson", "nonutf8"}

\* C2 as claimed: a POST to /light-control with invalid JSON, with non-UTF-8
\* bytes or without a Content-Length header is answered with status 400 and
\* a JSON body of status "error" with a non-empty message.
C2_MalformedGets400 ==
    \A c \in Clients :
        (Ended(c) /\ ~h[c].wfail /\ MalformedPost(h[c].req))
            => IsErrorResponse(h[c].out)

\* The requests of C3: neither OPTIONS nor POST /light-control.
Unrouted(r) == r.method # "OPTIONS" /\ ~IsLightControlPost(r)

IsBare404(out) ==
    /\ Len(out) = 1
    /\ out[1].k = "head" /\ out[1].status = 404
    /\ HasNoAccessControl(out[1])

C4_Preflight ==
    \A c \in Clients :
        h[c].req.method = "OPTIONS" =>
            /\ h[c].pc \in {"do_OPTIONS", "return", "raised"}
            /\ h[c].console = <<>>
            /\ h[c].data = NoHandler.data
            /\ Answered(c) =>
                 /\ Len(h[c].out) = 1
                 /\ h[c].out[1].k = "head" /\ h[c].out[1].status = 200
                 /\ h[c].out[1].headers =
                      {<<"Access-Control-Allow-Origin", "*">>,
                       <<"Access-Control-Allow-Methods", "GET, POST, OPTIONS">>,
                       <<"Access-Control-Allow-Headers", "Content-Type">>}

\* C4 witness: an OPTIONS request to a path other than /light-control, with
\* a body that is not JSON, has been answered.
C4_Witness ==
    \E c \in Clients :
        /\ Answered(c)
        /\ h[c].req.method = "OPTIONS" /\ h[c].req.path # "/light-control"
        /\ h[c].req.body = BodyNotJson
        /\ h[c].out[1].status = 200

\* C5, listening: while run_server is serving and no handler runs, a queued
\* connection can be accepted, whatever errors earlier handlers raised.
StillListening ==
    (rpc = "serving" /\ CanAccept) =>
        \A c \in Clients : conn[c] = "queued" => ENABLED Accept(c)

\* C5: no handler error is fatal.  After any sequence of requests, also
\* ones whose handler raised inside or outside its try block, the server
\* still accepts the next connection, and run_server leaves the serving
\* state by an operator interrupt only.
C5_NoErrorIsFatal ==
    /\ []StillListening
    /\ [][(rpc = "serving" /\ rpc' # "serving") => Interrupt]_vars

\* C5 witness: after a handler raised out of do_POST (Content-Length absent
\* or not an integer), a well-formed POST has been answered 200.
C5_Witness ==
    /\ rpc = "serving"
    /\ \E m \in memo : m.req.cl \in {"absent", "nonint"} /\ m.out = <<>>
    /\ \E c \in Clients :
          /\ Answered(c)
          /\ WellFormedPost(h[c].req)
          /\ h[c].out[1].status = 200

\* C6: requests are stateless.  An answered request gets the response that
\* the same request got earlier, whatever was handled before or between the
\* two; for a valid event both are 200 responses with the same message.
C6_Stateless ==
    \A c \in Clients : \A m \in memo :
        (Answered(c) /\ m.req = h[c].req) => h[c].out = m.out

\* C6 witness: the scenario event has been answered 200 a second time, with
\* another exchange between the two.
C6_Witness ==
    \E c \in Clients : \E m \in memo :
        /\ Answered(c) /\ h[c].pc = "return"
        /\ m.req = h[c].req
        /\ m.between
        /\ h[c].req.body = BodyObject(ScenarioObject)
        /\ h[c].out[1].status = 200
        /\ h[c].out[2].message = "Received flash_red command"

\* The connections whose request is being handled.
Handling == {c \in Clients : h[c].pc # "none"}

\* The handler of c is blocked in rfile.read: fewer body bytes have arrived
\* than Content-Length declares and the client is still connected.
Stalled(c) == h[c].pc = "read" /\ h[c].avail = "part"

\* C7: handling is strictly sequential.  At most one request is being
\* handled; a connection is accepted only when no handler is running; and a
\* handler stalled in its read stays there, with every other client's
\* connection unserved, until its client sends the rest or ends the stream
\* (or the operator interrupts): no timeout ends the read.
C7_Sequential ==
    [][/\ Cardinality(Handling') <= 1
       /\ \A c \in Clients :
             (h[c].pc = "none" /\ h'[c].pc # "none") => Handling = {}
       /\ \A c \in Clients :
             Stalled(c) =>
                \/ Interrupt
                \/ /\ h'[c].pc = "read"
                   /\ \A d \in Clients \ {c} : h'[d].pc = "none"
                   /\ Stalled(c)' \/ ClientSendsRest(c) \/ ClientEndsStream(c)
      ]_vars

\* C7 witness: a handler is stalled in its read while another client's
\* connection waits in the backlog.
C7_Witness ==
    \E c, d \in Clients :
        /\ c # d
        /\ Stalled(c)
        /\ conn[d] = "queued"

\* C8: an interrupt received while serving ends run_server in order.  The
\* shutdown() call made by the thread that ran serve_forever() finds the
\* shut-down event set and returns; unless the operator interrupts again,
\* run_server reaches its end; and from the interrupt on no request is
\* handled.
C8_OrderlyShutdown ==
    /\ [](rpc = "wait" => is_shut_down)
    /\ (rpc = "except") ~> (rpc \in {"done", "killed"})
    /\ [](rpc \in {"except", "shutdown", "wait", "done"} => Handling = {})

\* C8 witness: run_server has returned after an interrupt that arrived while
\* a connection was queued, which stays unserved.
C8_Witness ==
    /\ rpc = "done"
    /\ \E c \in Clients : conn[c] = "queued"
    /\ Handling = {}

\* The processing errors of C9: the JSON value is not an object, or the
\* timestamp is a string, null, or a number outside the convertible range.
ProcessingError(d) ==
    \/ d.kind = "array"
    \/ /\ d.kind = "object"
       /\ "timestamp" \in DOMAIN d.obj
       /\ d.obj["timestamp"].t \in {"str", "null", "bignum"}

\* C9: when the body read from a POST to /light-control is valid UTF-8 JSON
\* and a later step raises (not an object; timestamp non-numeric, null or
\* out of range), the handler never sends 200 and never prints an input
\* line; it prints one line describing the error and, when its writes
\* succeed, answers 400 with Access-Control-Allow-Origin: * and the body
\* {"status":"error","message":<description>}.
C9_ProcessingErrorGets400 ==
    \A c \in Clients :
        (h[c].pc \notin {"none", "try"} /\ ProcessingError(h[c].data)) =>
            /\ \A i \in 1..Len(h[c].calls) : h[c].calls[i] # 200
            /\ \A i \in 1..Len(h[c].out) : h[c].out[i].status # 200
            /\ h[c].pc \in {"except", "send_400", "body_400", "return", "raised"}
            /\ Len(h[c].console) = IF h[c].pc = "except" THEN 0 ELSE 1
            /\ (Ended(c) /\ ~h[c].wfail) =>
                  /\ h[c].pc = "return"
                  /\ IsErrorResponse(h[c].out)
                  /\ h[c].console =
                        <<"Error processing request: " \o h[c].out[2].message>>

\* C9 witness: a POST whose timestamp is null, with an action present, has
\* been answered 400.
C9_Witness ==
    \E c \in Clients :
        /\ Answered(c)
        /\ h[c].req.body = BodyObject([timestamp |-> JNull, action |-> JStr("flash_red")])
        /\ h[c].out[1].status = 400
        /\ Len(h[c].console) = 1

\* C10 as claimed: a request handled by do_POST gets at most one response:
\* the handler issues at most one status line and writes at most one status
\* line and at most one body.
C10_AtMostOneResponse ==
    \A c \in Clients :
        /\ Len(h[c].calls) <= 1
        /\ Cardinality({i \in 1..Len(h[c].out) : h[c].out[i].k = "head"}) <= 1
        /\ Cardinality({i \in 1..Len(h[c].out) : h[c].out[i].k = "body"}) <= 1

====
